---------------------------- MODULE Spec2Model ----------------------------
(***************************************************************************)
(* A model of the arcanoid program (src/src/main.cpp): the intrusive       *)
(* reference counting (IRefCounted / RefCnt), the native-resource wrappers *)
(* (Buffer, Shader, VertexArray, AudioEntry, AudioSource), the Quad        *)
(* movement, the BoxGrid and the Application's update tick.                *)
(*                                                                         *)
(* Lengths are exact rationals in units of 1/6000 of a world unit, the     *)
(* coarsest unit in which every length the program computes from its       *)
(* constants is an integer (ySize/2 = (4/10 - 0.011)/6 = 389/6000).        *)
(* Floating-point rounding is not modelled.                                *)
(***************************************************************************)
EXTENDS Integers, Sequences, FiniteSets, TLC

VARIABLES
    \* ---- RefCnt<T> handles and IRefCounted objects
    hObject,        \* handle slot -> -1 (no such variable), 0 (nullptr) or an object
    heap,           \* object -> [made, count, freed]: refCount and number of `delete this`
    refUB,          \* "none", "uaf" (a freed object was used), "null" (nullptr dereferenced)
    lastRef,        \* the last RefCnt operation and the counts it found
    \* ---- native-resource wrappers
    wKind,          \* the wrapper class under study
    wId,            \* wrapper slot -> -1 (no such object) or its native id (0 = none)
    nativeDeleted,  \* native id -> number of native delete calls it was passed to
    nextId,         \* next id the native create call hands out
    lastWrap,       \* the last wrapper operation
    \* ---- a free-standing Quad
    quad,           \* [pos, size]
    quadLast,       \* the last call on it: [axis, amount]
    \* ---- the Application's scene
    player,         \* PlayerPlatform's quad: [pos, size]
    ball,           \* Ball: [pos, size, xStep, yStep]
    grid,           \* BoxGrid: its members, and the number of native objects it has made
    gameOver,       \* Application::gameOver
    lossSignals,    \* narrator->playSound(gameOverEntry) calls since the last createResources
    outTicks,       \* ticks since the last createResources that ended with outOfWorld()
    rebuilt,        \* the scene as the last createResources left it
    drawn,          \* the draw calls issued since the last update, in order: [what, at]
    owned,          \* the reference-counted objects of the scene and the handles
                    \* between them: [objs, ub, log, was]
    run,            \* the ticks since the last createResources, while they share one
                    \* step and none has reflected the ball at a side wall
    last            \* what the last operation on the scene did

refVars  == <<hObject, heap, refUB, lastRef>>
wrapVars == <<wKind, wId, nativeDeleted, nextId, lastWrap>>
quadVars == <<quad, quadLast>>
gameVars == <<player, ball, grid, gameOver, lossSignals, outTicks, rebuilt, drawn, owned,
               run, last>>
vars     == <<refVars, wrapVars, quadVars, gameVars>>

-----------------------------------------------------------------------------
(* Bounds of the model *)

MaxHandles == 3
MaxObjects == 2

Handles == 1..MaxHandles
Objects == 1..MaxObjects

-----------------------------------------------------------------------------
(* IRefCounted, RefCnt<T> *)

NewObject == [made |-> TRUE, count |-> 1, freed |-> 0]

NoObject == [made |-> FALSE, count |-> 0, freed |-> 0]

\* a mutant: addRef that forgets the increment
AddRefSkip(hp, o) == hp

AddRef(hp, o) == [hp EXCEPT ![o].count = @ + 1]

Release(hp, o) ==
    LET c == hp[o].count - 1
    IN  [hp EXCEPT ![o].count = c, ![o].freed = IF c = 0 THEN @ + 1 ELSE @]

\* What a freed object's refCount may read as.
GarbageCounts == {0, 1, 2}

\* The heaps in which an operation can find object o: the heap itself while o
\* is alive, any refCount for o once o was deleted (its memory is not o's any more).
Found(hp, o) ==
    IF hp[o].freed = 0 THEN {hp}
    ELSE {[hp EXCEPT ![o].count = g] : g \in GarbageCounts}

UseOf(hp, o) == IF hp[o].freed > 0 THEN "uaf" ELSE refUB

NumHandles(o) == Cardinality({h \in Handles : hObject[h] = o})

RefInit ==
    /\ hObject = [h \in Handles |-> -1]
    /\ heap = [o \in Objects |-> NoObject]
    /\ refUB = "none"
    /\ lastRef = [op |-> "init", src |-> 0, obj |-> 0, before |-> 0,
                  dropped |-> 0, droppedBefore |-> 0]

\* RefCnt<T>::make: new T (refCount 1) wrapped in a handle
Make(h, o) ==
    /\ refUB # "null"
    /\ hObject[h] = -1
    /\ ~heap[o].made
    /\ heap' = [heap EXCEPT ![o] = NewObject]
    /\ hObject' = [hObject EXCEPT ![h] = o]
    /\ lastRef' = [op |-> "make", src |-> 0, obj |-> o, before |-> 0,
                   dropped |-> 0, droppedBefore |-> 0]
    /\ UNCHANGED refUB

\* RefCnt() = default
DefaultCtor(h) ==
    /\ refUB # "null"
    /\ hObject[h] = -1
    /\ hObject' = [hObject EXCEPT ![h] = 0]
    /\ lastRef' = [op |-> "default", src |-> 0, obj |-> 0, before |-> 0,
                   dropped |-> 0, droppedBefore |-> 0]
    /\ UNCHANGED <<heap, refUB>>

\* ~RefCnt
Dtor(h) ==
    /\ refUB # "null"
    /\ hObject[h] # -1
    /\ LET o == hObject[h]
       IN  IF o = 0
           THEN /\ UNCHANGED <<heap, refUB>>
                /\ lastRef' = [op |-> "dtor", src |-> h, obj |-> 0, before |-> 0,
                               dropped |-> 0, droppedBefore |-> 0]
           ELSE \E hp \in Found(heap, o) :
                /\ heap' = Release(hp, o)
                /\ refUB' = UseOf(heap, o)
                /\ lastRef' = [op |-> "dtor", src |-> h, obj |-> o, before |-> hp[o].count,
                               dropped |-> o, droppedBefore |-> hp[o].count]
    /\ hObject' = [hObject EXCEPT ![h] = -1]

\* RefCnt(const RefCnt&): object(other.object), object->addRef()
CopyCtor(d, s) ==
    /\ refUB # "null"
    /\ hObject[d] = -1
    /\ hObject[s] # -1
    /\ LET o == hObject[s]
       IN  IF o = 0
           THEN /\ refUB' = "null"
                /\ hObject' = [hObject EXCEPT ![d] = 0]
                /\ lastRef' = [op |-> "copyCtor", src |-> s, obj |-> 0, before |-> 0,
                               dropped |-> 0, droppedBefore |-> 0]
                /\ UNCHANGED heap
           ELSE \E hp \in Found(heap, o) :
                /\ heap' = AddRef(hp, o)
                /\ refUB' = UseOf(heap, o)
                /\ hObject' = [hObject EXCEPT ![d] = o]
                /\ lastRef' = [op |-> "copyCtor", src |-> s, obj |-> o,
                               before |-> hp[o].count,
                               dropped |-> 0, droppedBefore |-> 0]

\* RefCnt& operator=(const RefCnt&): release the held object, take other's, addRef
CopyAssign(d, s) ==
    /\ refUB # "null"
    /\ hObject[d] # -1
    /\ hObject[s] # -1
    /\ LET old == hObject[d]
       IN  \E hp0 \in (IF old = 0 THEN {heap} ELSE Found(heap, old)) :
           LET hp1 == IF old = 0 THEN hp0 ELSE Release(hp0, old)
               ub1 == IF old = 0 THEN refUB ELSE UseOf(heap, old)
               o   == hObject[s]
           IN  IF o = 0
               THEN /\ refUB' = "null"
                    /\ heap' = hp1
                    /\ hObject' = [hObject EXCEPT ![d] = 0]
                    /\ lastRef' = [op |-> "copyAssign", src |-> s, obj |-> 0, before |-> 0,
                                   dropped |-> old,
                                   droppedBefore |-> IF old = 0 THEN 0 ELSE hp0[old].count]
               ELSE \E hp2 \in Found(hp1, o) :
                    /\ heap' = AddRef(hp2, o)
                    /\ refUB' = IF hp1[o].freed > 0 THEN "uaf" ELSE ub1
                    /\ hObject' = [hObject EXCEPT ![d] = o]
                    /\ lastRef' = [op |-> "copyAssign", src |-> s, obj |-> o,
                                   before |-> hp0[o].count,
                                   dropped |-> old,
                                   droppedBefore |-> IF old = 0 THEN 0 ELSE hp0[old].count]

\* RefCnt(RefCnt&&): take other's object, other.object = nullptr
MoveCtor(d, s) ==
    /\ refUB # "null"
    /\ hObject[d] = -1
    /\ hObject[s] # -1
    /\ hObject' = [hObject EXCEPT ![d] = hObject[s], ![s] = 0]
    /\ lastRef' = [op |-> "moveCtor", src |-> s, obj |-> hObject[s],
                   before |-> IF hObject[s] = 0 THEN 0 ELSE heap[hObject[s]].count,
                   dropped |-> 0, droppedBefore |-> 0]
    /\ UNCHANGED <<heap, refUB>>

\* RefCnt& operator=(RefCnt&&): release the held object, take other's,
\* other.object = nullptr (d = s: the handle ends empty)
MoveAssign(d, s) ==
    /\ refUB # "null"
    /\ hObject[d] # -1
    /\ hObject[s] # -1
    /\ LET old == hObject[d]
           o   == hObject[s]
       IN  \E hp0 \in (IF old = 0 THEN {heap} ELSE Found(heap, old)) :
           /\ heap' = IF old = 0 THEN hp0 ELSE Release(hp0, old)
           /\ refUB' = IF old = 0 THEN refUB ELSE UseOf(heap, old)
           /\ hObject' = [[hObject EXCEPT ![d] = o] EXCEPT ![s] = 0]
           /\ lastRef' = [op |-> "moveAssign", src |-> s, obj |-> o,
                          before |-> IF o = 0 THEN 0 ELSE hp0[o].count,
                          dropped |-> old,
                          droppedBefore |-> IF old = 0 THEN 0 ELSE hp0[old].count]

NonEmpty(h) == hObject[h] \notin {-1, 0}

-----------------------------------------------------------------------------
(* The native-resource wrappers: Buffer, Shader, VertexArray, AudioEntry,   *)
(* AudioSource.  Each holds one native id (0 = none); its destructor and    *)
(* its move operations pass a non-zero id to the native delete call.        *)

MaxWrappers == 2
MaxIds == 2
\* native delete calls on one id are followed up to this number
MaxDeletes == 2

Wrappers == 1..MaxWrappers
Ids == 1..MaxIds

Kinds == {"Buffer", "Shader", "VertexArray", "AudioEntry", "AudioSource"}

\* the native delete call (glDeleteBuffers, glDeleteProgram,
\* glDeleteVertexArrays, alDeleteBuffers, alDeleteSources) on a held id
NativeDelete(nd, id) == IF id = 0 THEN nd ELSE [nd EXCEPT ![id] = @ + 1]

\* What a move assignment leaves in the moved-from wrapper, given the id the
\* destination has just taken: `other.id = 0`, but VertexArray's operator=
\* writes `other.id = id`.
MovedFromId(kind, taken) == IF kind = "VertexArray" THEN taken ELSE 0

WrapInit ==
    /\ wKind \in Kinds
    /\ wId = [w \in Wrappers |-> -1]
    /\ nativeDeleted = [i \in Ids |-> 0]
    /\ nextId = 1
    /\ lastWrap = [op |-> "init", dst |-> 0, src |-> 0, srcId |-> 0]

\* a constructor: the native create call hands out a fresh id
WCreate(w) ==
    /\ wId[w] = -1
    /\ nextId \in Ids
    /\ wId' = [wId EXCEPT ![w] = nextId]
    /\ nextId' = nextId + 1
    /\ lastWrap' = [op |-> "create", dst |-> w, src |-> 0, srcId |-> 0]
    /\ UNCHANGED <<wKind, nativeDeleted>>

\* the destructor: if (id) delete(id)
WDtor(w) ==
    /\ wId[w] # -1
    /\ wId[w] # 0 => nativeDeleted[wId[w]] < MaxDeletes
    /\ nativeDeleted' = NativeDelete(nativeDeleted, wId[w])
    /\ wId' = [wId EXCEPT ![w] = -1]
    /\ lastWrap' = [op |-> "dtor", dst |-> w, src |-> 0, srcId |-> 0]
    /\ UNCHANGED <<wKind, nextId>>

\* the move constructor: id starts as 0 (its member initializer), so the
\* `if (id) delete(id)` does nothing; then id = other.id, other.id = 0
WMoveCtor(d, s) ==
    /\ wId[d] = -1
    /\ wId[s] # -1
    /\ nativeDeleted' = NativeDelete(nativeDeleted, 0)
    /\ wId' = [wId EXCEPT ![d] = wId[s], ![s] = 0]
    /\ lastWrap' = [op |-> "moveCtor", dst |-> d, src |-> s, srcId |-> wId[s]]
    /\ UNCHANGED <<wKind, nextId>>

\* the move assignment between two objects: if (id) delete(id);
\* id = other.id; other.id = 0 (VertexArray: other.id = id)
WMoveAssign(d, s) ==
    /\ d # s
    /\ wId[d] # -1
    /\ wId[s] # -1
    /\ wId[d] # 0 => nativeDeleted[wId[d]] < MaxDeletes
    /\ nativeDeleted' = NativeDelete(nativeDeleted, wId[d])
    /\ wId' = [wId EXCEPT ![d] = wId[s], ![s] = MovedFromId(wKind, wId[s])]
    /\ lastWrap' = [op |-> "moveAssign", dst |-> d, src |-> s, srcId |-> wId[s]]
    /\ UNCHANGED <<wKind, nextId>>

-----------------------------------------------------------------------------
(* Quad: position and size, moveX / moveY clamped to the world *)

WorldHalfWidth == 12000
WorldHalfHeight == 9000
LowerExtension == 6000

Vec2(x, y) == [x |-> x, y |-> y]

\* a mutant: a clamp that forgets the upper limit
ClampNoUpper(v, lo, hi) == IF v < lo THEN lo ELSE v

\* the one element of a set.  {F(h) : h \in {H}} is F(H), with H worked out
\* before F begins.
The(S) == CHOOSE x \in S : TRUE

\* glm::clamp(v, lo, hi) = min(max(v, lo), hi)
Clamp(v, lo, hi) ==
    LET m == IF v < lo THEN lo ELSE v
    IN  IF hi < m THEN hi ELSE m

\* Quad::moveX
MoveX(q, amount) ==
    LET clamp == WorldHalfWidth - (q.size.x \div 2)
    IN  [q EXCEPT !.pos.x = Clamp(q.pos.x + amount, -clamp, clamp)]

\* a mutant: moveY whose lower limit is the bottom of the world
MoveYNoExtension(q, amount) ==
    LET clamp == WorldHalfHeight - (q.size.y \div 2)
    IN  [q EXCEPT !.pos.y = Clamp(q.pos.y + amount, -clamp, clamp)]

\* Quad::moveY
MoveY(q, amount) ==
    LET clamp == WorldHalfHeight - (q.size.y \div 2)
    IN  [q EXCEPT !.pos.y = Clamp(q.pos.y + amount, -clamp - LowerExtension, clamp)]

-----------------------------------------------------------------------------
(* PlayerPlatform, BoxGrid, Ball *)

PlayerStartY == -3600
PlayerSizeX == 2400
PlayerSizeY == 300
BallSizeXY == 600
GridX == 10
GridY == 7
Margin == 60
XSize == 2334
YSize == 778
SentinelCoord == -600000
SelfCollisionBias == 120
PaddleCollisionBias == 3600
Nudge == 300
YBounceBase == 8994
XBounceBase == 11994
FreezeMargin == 600

\* a Quad at a position, of a size
NewQuad(position, size) == [pos |-> position, size |-> size]

\* x * 1.5f
Times15(x) == (x * 3) \div 2

\* PlayerPlatform::move(direction, speed) with speed = 1.5f
PlayerMove(p, direction) == MoveX(p, Times15(direction))

\* a mutant: a sentinel inside the playfield
SentinelBoxInside ==
    LET v == Vec2(0, 0)
    IN  [topLeft |-> v, bottomLeft |-> v, bottomRight |-> v, topRight |-> v]

\* the Box every skipped index gets: all four corners at (-100, -100)
SentinelBox ==
    LET v == Vec2(SentinelCoord, SentinelCoord)
    IN  [topLeft |-> v, bottomLeft |-> v, bottomRight |-> v, topRight |-> v]

\* the Box around (lastX, lastY)
BoxAt(lastX, lastY, boxSize) ==
    [topLeft     |-> Vec2(lastX - boxSize.x \div 2, lastY + boxSize.y \div 2),
     bottomLeft  |-> Vec2(lastX - boxSize.x \div 2, lastY - boxSize.y \div 2),
     bottomRight |-> Vec2(lastX + boxSize.x \div 2, lastY - boxSize.y \div 2),
     topRight    |-> Vec2(lastX + boxSize.x \div 2, lastY + boxSize.y \div 2)]

\* a mutant: a search of the destroyed-cell list that finds nothing
IsSkippedNever(skipped, boxIndex) == FALSE

\* `for (auto idx : skippedBoxes) if (boxIndex == idx)`
IsSkipped(skipped, boxIndex) == \E k \in 1..Len(skipped) : skipped[k] = boxIndex

\* a mutant: a skipped box that does not advance lastX, so that the boxes
\* after it in the row move one place left
GenerateVerticesShifted(g) ==
    [k \in 1..(g.countX * g.countY) |->
        LET boxIndex == k - 1
            x == boxIndex % g.countX
            y == boxIndex \div g.countX
            before == Cardinality({j \in 0..(x - 1) :
                                      IsSkipped(g.skippedBoxes, y * g.countX + j)})
        IN  IF IsSkipped(g.skippedBoxes, boxIndex) THEN SentinelBox
            ELSE BoxAt(g.position.x + (x - before) * (g.margin + g.boxSize.x),
                       g.position.y - y * (g.margin + g.boxSize.y), g.boxSize)]

\* a mutant: a skipped box left out of the array, so that the boxes after it
\* take the indices before theirs
GenerateVerticesCompacted(g) ==
    LET all == [k \in 1..(g.countX * g.countY) |->
                   BoxAt(g.position.x + ((k - 1) % g.countX) * (g.margin + g.boxSize.x),
                         g.position.y - ((k - 1) \div g.countX) * (g.margin + g.boxSize.y),
                         g.boxSize)]
        kept == SelectSeq([k \in 1..Len(all) |-> k - 1],
                          LAMBDA boxIndex : ~IsSkipped(g.skippedBoxes, boxIndex))
    IN  [k \in 1..Len(kept) |-> all[kept[k] + 1]]

\* BoxGrid::generateVertices.  Box boxIndex = y*countX + x is made in row y at
\* column x: lastX has advanced by margin + boxSize.x once per earlier box of
\* the row (a skipped box advances it too, after the skip_box label) and
\* lastY has stepped down by margin + boxSize.y once per earlier row.
GenerateVertices(g) ==
    [k \in 1..(g.countX * g.countY) |->
        LET boxIndex == k - 1
            x == boxIndex % g.countX
            y == boxIndex \div g.countX
        IN  IF IsSkipped(g.skippedBoxes, boxIndex) THEN SentinelBox
            ELSE BoxAt(g.position.x + x * (g.margin + g.boxSize.x),
                       g.position.y - y * (g.margin + g.boxSize.y), g.boxSize)]

\* the native objects BoxGrid::regenerate makes: vbo, ibo, vao, shader
RegenerateMakes == <<"Buffer", "Buffer", "VertexArray", "Shader">>

\* a mutant: regenerate that fills the buffers it has instead of making new ones
RegenerateReusing(g) == [g EXCEPT !.vertices = GenerateVertices(g)]

\* BoxGrid::regenerate: the cell array is rebuilt from scratch and a new
\* vertex buffer, index buffer, vertex array and shader program are made
Regenerate(g) ==
    [g EXCEPT !.vertices = GenerateVertices(g),
              !.created = @ + Len(RegenerateMakes)]

\* BoxGrid::BoxGrid
NewBoxGrid(position, boxSize, margin, countX, countY) ==
    Regenerate([position |-> position, boxSize |-> boxSize, margin |-> margin,
                countX |-> countX, countY |-> countY,
                skippedBoxes |-> <<>>, vertices |-> <<>>, created |-> 0])

\* a mutant: destroyBox that ignores an index it already holds
DestroyBoxOnce(g, idx) ==
    IF IsSkipped(g.skippedBoxes, idx) THEN g
    ELSE Regenerate([g EXCEPT !.skippedBoxes = Append(@, idx)])

\* a mutant: destroyBox that records the index and forgets to regenerate
DestroyBoxNoRegenerate(g, idx) == [g EXCEPT !.skippedBoxes = Append(@, idx)]

\* BoxGrid::destroyBox
DestroyBox(g, idx) ==
    The({Regenerate(h) : h \in {[g EXCEPT !.skippedBoxes = Append(@, idx)]}})

\* BoxGrid::Box::hit
Hit(box, position, size, collisionBias) ==
    /\ position.x - collisionBias < box.topRight.x
    /\ position.x + collisionBias > box.topLeft.x
    /\ position.y - collisionBias < box.topLeft.y
    /\ position.y + collisionBias > box.bottomRight.y

\* Ball::getYBouncePoint, Ball::getXBouncePoint
YBouncePoint(b) == YBounceBase - (b.size.y \div 2)

XBouncePoint(b) == XBounceBase - (b.size.x \div 2)

\* a mutant: outOfWorld that waits for the freeze threshold
OutOfWorldBelowMargin(b) == b.pos.y < -YBouncePoint(b) - FreezeMargin

\* Ball::outOfWorld
OutOfWorld(b) == b.pos.y < -YBouncePoint(b)

\* a mutant: a paddle test whose bias widens the paddle's extent along y
PaddleHitExpanded(b, p) ==
    /\ b.pos.x - SelfCollisionBias < p.pos.x + p.size.x \div 2
    /\ b.pos.x + SelfCollisionBias > p.pos.x - p.size.x \div 2
    /\ b.pos.y - SelfCollisionBias < p.pos.y + p.size.y \div 2 + PaddleCollisionBias
    /\ b.pos.y + SelfCollisionBias > p.pos.y - p.size.y \div 2 - PaddleCollisionBias

\* the paddle test of Ball::bounce
PaddleHit(b, p) ==
    /\ b.pos.x - SelfCollisionBias < p.pos.x + p.size.x \div 2
    /\ b.pos.x + SelfCollisionBias > p.pos.x - p.size.x \div 2
    /\ b.pos.y - SelfCollisionBias < p.pos.y + p.size.y \div 2 - PaddleCollisionBias
    /\ b.pos.y + SelfCollisionBias > p.pos.y - p.size.y \div 2 - PaddleCollisionBias

\* the x conditions of the paddle test
WithinExtent(b, p) ==
    /\ b.pos.x - SelfCollisionBias < p.pos.x + p.size.x \div 2
    /\ b.pos.x + SelfCollisionBias > p.pos.x - p.size.x \div 2

\* the ball is at or above the upper y limit of the paddle test
AboveBand(b, p) ==
    b.pos.y - SelfCollisionBias >= p.pos.y + p.size.y \div 2 - PaddleCollisionBias

\* the ball is at or below the lower y limit of the paddle test
BelowBand(b, p) ==
    b.pos.y + SelfCollisionBias <= p.pos.y - p.size.y \div 2 - PaddleCollisionBias

\* a ball that was at b0 over the paddle at p0 and is at b1 under the paddle at p1
Crossed(b0, p0, b1, p1) ==
    /\ AboveBand(b0, p0) /\ WithinExtent(b0, p0)
    /\ BelowBand(b1, p1) /\ WithinExtent(b1, p1)

\* a mutant: the grid loop running from the last index down
FirstHitFromEnd(boxes, b) ==
    LET hits == {i \in 1..Len(boxes) : Hit(boxes[i], b.pos, b.size, SelfCollisionBias)}
    IN  IF hits = {} THEN -1
        ELSE (CHOOSE i \in hits : \A j \in hits : i >= j) - 1

\* the grid loop of Ball::bounce: the first index whose box is hit, -1 if none
FirstHit(boxes, b) ==
    LET hits == {i \in 1..Len(boxes) : Hit(boxes[i], b.pos, b.size, SelfCollisionBias)}
    IN  IF hits = {} THEN -1
        ELSE (CHOOSE i \in hits : \A j \in hits : i <= j) - 1

NoEffect(b, g) ==
    [ball |-> b, grid |-> g, frozen |-> FALSE, wallX |-> FALSE,
     paddleHit |-> FALSE, cellHit |-> -1, wallY |-> FALSE]

\* a mutant: the wall-x checks that forget to assign xStep
XStepAfterWallsKept(b) == b.xStep

\* the wall-x checks of Ball::bounce: xStep after them
XStepAfterWalls(b) ==
    LET s1 == IF b.pos.x > XBouncePoint(b) THEN -1 ELSE b.xStep
    IN  IF b.pos.x < -XBouncePoint(b) THEN 1 ELSE s1

\* a mutant: bounce without the early return
FrozenNever(b) == FALSE

\* the early return of Ball::bounce: the ball is more than 0.1 below -yBouncePoint
Frozen(b) == b.pos.y < -YBouncePoint(b) - FreezeMargin

\* a mutant: bounce whose cell hit does not return, so that the wall-y check
\* runs after it
BounceNoReturn(b, p, g, speed) ==
    IF Frozen(b)
    THEN [NoEffect(b, g) EXCEPT !.frozen = TRUE]
    ELSE
    LET b1 == MoveY(MoveX(b, b.xStep * speed), b.yStep * speed)
        b2 == [b1 EXCEPT !.xStep = XStepAfterWalls(b1)]
        r2 == [NoEffect(b2, g) EXCEPT
                  !.wallX = b1.pos.x > XBouncePoint(b1) \/ b1.pos.x < -XBouncePoint(b1)]
        i  == FirstHit(g.vertices, b2)
        r3 == IF i # -1
              THEN [r2 EXCEPT !.ball.yStep = -b2.yStep,
                              !.grid = DestroyBox(g, i),
                              !.cellHit = i]
              ELSE r2
    IN  IF PaddleHit(b2, p)
        THEN [r2 EXCEPT !.ball = MoveY([b2 EXCEPT !.yStep = -b2.yStep], Nudge),
                        !.paddleHit = TRUE]
        ELSE IF b2.pos.y > YBouncePoint(b2)
        THEN [r3 EXCEPT !.ball.yStep = -1, !.wallY = TRUE]
        ELSE r3

\* a mutant: a paddle test that also succeeds when the move has taken the ball
\* through the paddle's band
BounceSwept(b, p, g, speed) ==
    IF Frozen(b)
    THEN [NoEffect(b, g) EXCEPT !.frozen = TRUE]
    ELSE
    LET b1 == MoveY(MoveX(b, b.xStep * speed), b.yStep * speed)
        b2 == [b1 EXCEPT !.xStep = XStepAfterWalls(b1)]
        r2 == [NoEffect(b2, g) EXCEPT
                  !.wallX = b1.pos.x > XBouncePoint(b1) \/ b1.pos.x < -XBouncePoint(b1)]
        i  == FirstHit(g.vertices, b2)
    IN  IF PaddleHit(b2, p) \/ (AboveBand(b, p) /\ BelowBand(b2, p) /\ WithinExtent(b2, p))
        THEN [r2 EXCEPT !.ball = MoveY([b2 EXCEPT !.yStep = -b2.yStep], Nudge),
                        !.paddleHit = TRUE]
        ELSE IF i # -1
        THEN [r2 EXCEPT !.ball = [b2 EXCEPT !.yStep = -b2.yStep],
                        !.grid = DestroyBox(g, i),
                        !.cellHit = i]
        ELSE IF b2.pos.y > YBouncePoint(b2)
        THEN [r2 EXCEPT !.ball = [b2 EXCEPT !.yStep = -1], !.wallY = TRUE]
        ELSE r2

\* a mutant: a cell hit that turns the ball back along x as well
BounceCorner(b, p, g, speed) ==
    IF Frozen(b)
    THEN [NoEffect(b, g) EXCEPT !.frozen = TRUE]
    ELSE
    LET b1 == MoveY(MoveX(b, b.xStep * speed), b.yStep * speed)
        b2 == [b1 EXCEPT !.xStep = XStepAfterWalls(b1)]
        r2 == [NoEffect(b2, g) EXCEPT
                  !.wallX = b1.pos.x > XBouncePoint(b1) \/ b1.pos.x < -XBouncePoint(b1)]
        i  == FirstHit(g.vertices, b2)
    IN  IF PaddleHit(b2, p)
        THEN [r2 EXCEPT !.ball = MoveY([b2 EXCEPT !.yStep = -b2.yStep], Nudge),
                        !.paddleHit = TRUE]
        ELSE IF i # -1
        THEN [r2 EXCEPT !.ball = [b2 EXCEPT !.yStep = -b2.yStep, !.xStep = -b2.xStep],
                        !.grid = DestroyBox(g, i),
                        !.cellHit = i]
        ELSE IF b2.pos.y > YBouncePoint(b2)
        THEN [r2 EXCEPT !.ball = [b2 EXCEPT !.yStep = -1], !.wallY = TRUE]
        ELSE r2

\* Ball::bounce(speed): the ball and the grid after it, and what it did
Bounce(b, p, g, speed) ==
    IF Frozen(b)
    THEN [NoEffect(b, g) EXCEPT !.frozen = TRUE]
    ELSE
    LET b1 == MoveY(MoveX(b, b.xStep * speed), b.yStep * speed)
        right == b1.pos.x > XBouncePoint(b1)
        left  == b1.pos.x < -XBouncePoint(b1)
        b2 == [b1 EXCEPT !.xStep = XStepAfterWalls(b1)]
        r2 == [NoEffect(b2, g) EXCEPT !.wallX = right \/ left]
        i  == The({FirstHit(g.vertices, c) : c \in {b2}})
    IN  IF PaddleHit(b2, p)
        THEN [r2 EXCEPT !.ball = MoveY([b2 EXCEPT !.yStep = -b2.yStep], Nudge),
                        !.paddleHit = TRUE]
        ELSE IF i # -1
        THEN [r2 EXCEPT !.ball = [b2 EXCEPT !.yStep = -b2.yStep],
                        !.grid = DestroyBox(g, i),
                        !.cellHit = i]
        ELSE IF b2.pos.y > YBouncePoint(b2)
        THEN [r2 EXCEPT !.ball = [b2 EXCEPT !.yStep = -1], !.wallY = TRUE]
        ELSE r2

-----------------------------------------------------------------------------
(* Application *)

\* Ball::Ball: its quad, xStep = 1.0f, yStep = +1.0f
NewBall(position, size) == [pos |-> position, size |-> size, xStep |-> 1, yStep |-> 1]

\* the paddle, the grid and the ball createResources makes
FreshPlayer == NewQuad(Vec2(0, PlayerStartY), Vec2(PlayerSizeX, PlayerSizeY))

FreshGrid ==
    NewBoxGrid(Vec2(-WorldHalfWidth + Margin + XSize \div 2,
                    WorldHalfHeight - Margin - YSize \div 2),
               Vec2(XSize, YSize), Margin, GridX, GridY)

FreshBall == NewBall(Vec2(0, 0), Vec2(BallSizeXY, BallSizeXY))

\* a mutant: createResources that forgets `gameOver = false`
CreateResourcesKeepsLatch(app) ==
    [app EXCEPT !.player = FreshPlayer, !.grid = FreshGrid, !.ball = FreshBall]

\* Application::createResources
CreateResources(app) ==
    [app EXCEPT !.player = FreshPlayer, !.grid = FreshGrid, !.ball = FreshBall,
                !.gameOver = FALSE]

\* the members before the constructor's createResources
Unbuilt ==
    [player |-> NewQuad(Vec2(0, 0), Vec2(0, 0)), ball |-> NewBall(Vec2(0, 0), Vec2(0, 0)),
     grid |-> [position |-> Vec2(0, 0), boxSize |-> Vec2(0, 0), margin |-> 0,
               countX |-> 0, countY |-> 0, skippedBoxes |-> <<>>, vertices |-> <<>>,
               created |-> 0],
     gameOver |-> FALSE]

NoTick ==
    [op |-> "init", rebuild |-> TRUE, wasOver |-> FALSE, frozen |-> FALSE, wallX |-> FALSE,
     paddleHit |-> FALSE, cellHit |-> -1, wallY |-> FALSE, lossFired |-> FALSE,
     crossed |-> FALSE]

-----------------------------------------------------------------------------
(* The scene's objects and the Ref handles between them.  An object is     *)
(* [kind, count, deleted, refs]: its refCount, the number of `delete this` *)
(* it has run and its Ref members in declaration order (0 = nullptr).      *)
(* Object 1 stands for the Application, whose Ref members are player,      *)
(* ball and grid; it is no IRefCounted and is never released.              *)

AppObj == 1
PlayerSlot == 1
BallSlot == 2
GridSlot == 3

\* the Ref members of Quad, of BoxGrid and of Ball, in declaration order
VaoSlot == 1
VboSlot == 2
IboSlot == 3
ShaderSlot == 4
BallPlayerSlot == 5
BallGridSlot == 6
AudioEntrySlot == 7
AudioSourceSlot == 8

Loc(holder, slot) == [holder |-> holder, slot |-> slot]

Slot(H, l) == H.objs[l.holder].refs[l.slot]

\* the handles that are members of objects not deleted
LiveLocs(H) ==
    UNION {{Loc(h, k) : k \in DOMAIN H.objs[h].refs} :
              h \in {i \in DOMAIN H.objs : H.objs[i].deleted = 0}}

\* the handles to o, other than `via`
HandlesTo(H, o, via) == Cardinality({l \in LiveLocs(H) : Slot(H, l) = o /\ l # via})

RECURSIVE Nulls(_)
\* n default-constructed handles
Nulls(n) == IF n = 0 THEN <<>> ELSE Append(Nulls(n - 1), 0)

\* new T: refCount{ 1 }, its Ref members default-constructed
HMake(H, kind, members) ==
    [H EXCEPT !.objs = Append(@, [kind |-> kind, count |-> 1, deleted |-> 0,
                                  refs |-> Nulls(members)])]

\* the object the next HMake makes
HFresh(H) == Len(H.objs) + 1

\* IRefCounted::addRef through a handle
HAddRef(H, o) ==
    IF o = 0 THEN [H EXCEPT !.ub = "null"]
    ELSE IF H.objs[o].deleted > 0 THEN [H EXCEPT !.ub = "uaf"]
    ELSE [H EXCEPT !.objs[o].count = @ + 1]

RECURSIVE HRelease(_, _, _)
RECURSIVE DestroyMembers(_, _, _)

\* IRefCounted::release through the handle `via`: at refCount 0 `delete this`,
\* which destroys the object's members
HRelease(H, o, via) ==
    IF H.objs[o].deleted > 0 THEN [H EXCEPT !.ub = "uaf"]
    ELSE IF H.objs[o].count # 1 THEN [H EXCEPT !.objs[o].count = @ - 1]
    ELSE DestroyMembers(
             [H EXCEPT !.objs[o].count = 0,
                       !.objs[o].deleted = @ + 1,
                       !.log = Append(@, [obj |-> o, handles |-> HandlesTo(H, o, via)])],
             o, Len(H.objs[o].refs))

\* ~RefCnt of the members k, k-1, ..., 1 of a deleted object: the reverse of
\* their declaration order
DestroyMembers(H, holder, k) ==
    IF k = 0 THEN H
    ELSE IF H.objs[holder].refs[k] = 0 THEN DestroyMembers(H, holder, k - 1)
    ELSE DestroyMembers(HRelease(H, H.objs[holder].refs[k], Loc(holder, k)),
                        holder, k - 1)

\* a mutant: an assignment that drops what the handle held without releasing it
MoveAssignTempLeaks(H, l, o) == [H EXCEPT !.objs[l.holder].refs[l.slot] = o]

\* RefCnt::operator=(RefCnt&&) from the temporary that make returned: release
\* what the handle holds, take the temporary's object
MoveAssignTemp(H, l, o) ==
    LET old == Slot(H, l)
        H1 == IF old = 0 THEN H ELSE HRelease(H, old, l)
    IN  [H1 EXCEPT !.objs[l.holder].refs[l.slot] = o]

\* `member = Ref<T>::make(...)` for a T without Ref members
MakeAssign(H, l, kind) == MoveAssignTemp(HMake(H, kind, 0), l, HFresh(H))

\* a mutant: a copy that takes the pointer and leaves the count alone
CopyInitRaw(H, l, src) == [H EXCEPT !.objs[l.holder].refs[l.slot] = Slot(H, src)]

\* RefCnt(const RefCnt&) of a member from the handle src
CopyInit(H, l, src) ==
    HAddRef([H EXCEPT !.objs[l.holder].refs[l.slot] = Slot(H, src)], Slot(H, src))

\* Quad::Quad: vbo, ibo, vao and shader are made in this order
QuadCtor(H, holder) ==
    LET H1 == MakeAssign(H, Loc(holder, VboSlot), "Buffer")
        H2 == MakeAssign(H1, Loc(holder, IboSlot), "Buffer")
        H3 == MakeAssign(H2, Loc(holder, VaoSlot), "VertexArray")
    IN  MakeAssign(H3, Loc(holder, ShaderSlot), "Shader")

\* the handle traffic of BoxGrid::regenerate: vbo, ibo, vao and shader are
\* assigned new objects in this order
RegenerateOwned(H, g) ==
    LET H1 == MakeAssign(H, Loc(g, VboSlot), "Buffer")
        H2 == MakeAssign(H1, Loc(g, IboSlot), "Buffer")
        H3 == MakeAssign(H2, Loc(g, VaoSlot), "VertexArray")
    IN  MakeAssign(H3, Loc(g, ShaderSlot), "Shader")

\* `player = Ref<PlayerPlatform>::make(...)`
MakePlayer(H) ==
    The({MoveAssignTemp(h, Loc(AppObj, PlayerSlot), HFresh(H)) :
            h \in {QuadCtor(HMake(H, "PlayerPlatform", 4), HFresh(H))}})

\* `grid = Ref<BoxGrid>::make(...)`
MakeGrid(H) ==
    The({MoveAssignTemp(h, Loc(AppObj, GridSlot), HFresh(H)) :
            h \in {RegenerateOwned(HMake(H, "BoxGrid", 4), HFresh(H))}})

\* Ball::Ball on the new object b: it initialises quad, player, grid,
\* audioEntry and audioSource
BallCtor(H, b) ==
    LET H2 == CopyInit(H, Loc(b, BallPlayerSlot), Loc(AppObj, PlayerSlot))
        H3 == CopyInit(H2, Loc(b, BallGridSlot), Loc(AppObj, GridSlot))
        H4 == MakeAssign(H3, Loc(b, AudioEntrySlot), "AudioEntry")
    IN  MakeAssign(H4, Loc(b, AudioSourceSlot), "AudioSource")

\* `ball = Ref<Ball>::make(..., player, grid)`
MakeBall(H) ==
    The({MoveAssignTemp(h, Loc(AppObj, BallSlot), HFresh(H)) :
            h \in {BallCtor(q, HFresh(H)) :
                      q \in {QuadCtor(HMake(H, "Ball", 8), HFresh(H))}}})

\* a mutant: createResources that makes the ball before the paddle and the grid
CreateResourcesOwnedBallFirst(H) ==
    The({MakeGrid(p) : p \in {MakePlayer(b) : b \in {MakeBall(H)}}})

\* the handle traffic of Application::createResources: player, grid, ball
CreateResourcesOwned(H) ==
    The({MakeBall(g) : g \in {MakeGrid(p) : p \in {MakePlayer(H)}}})

RECURSIVE Renamed(_, _, _)
\* the first k handles of refs, each object named by its place in kept
Renamed(refs, kept, k) ==
    IF k = 0 THEN <<>>
    ELSE Append(Renamed(refs, kept, k - 1),
                IF refs[k] = 0 THEN 0
                ELSE CHOOSE i \in 1..Len(kept) : kept[i] = refs[k])

RECURSIVE Visit(_, _, _)
\* the objects reached from the objects of `todo`, in the order reached
Visit(objs, todo, seen) ==
    IF todo = <<>> THEN seen
    ELSE IF Head(todo) = 0 \/ \E i \in 1..Len(seen) : seen[i] = Head(todo)
    THEN Visit(objs, Tail(todo), seen)
    ELSE Visit(objs, objs[Head(todo)].refs \o Tail(todo), Append(seen, Head(todo)))

\* the objects before the next operation: those deleted that no handle refers
\* to are forgotten and the others are numbered anew, in the order in which
\* the Application's handles lead to them (an object not reached from there
\* comes after those); the log starts empty
Settled(H) ==
    LET alive == SelectSeq([i \in 1..Len(H.objs) |-> i],
                           LAMBDA i : H.objs[i].deleted = 0)
        kept  == Visit(H.objs, <<AppObj>> \o alive, <<>>)
        objs  == [i \in 1..Len(kept) |->
                     [H.objs[kept[i]] EXCEPT !.refs = Renamed(@, kept, Len(@))]]
    IN  [objs |-> objs, ub |-> H.ub, log |-> <<>>,
         was |-> {i \in 1..Len(objs) : objs[i].deleted = 0}]

\* before Application::Application calls createResources: no scene
NoScene ==
    [objs |-> <<[kind |-> "Application", count |-> 1, deleted |-> 0,
                 refs |-> <<0, 0, 0>>]>>,
     ub |-> "none", log |-> <<>>, was |-> {AppObj}]

\* the grid of the scene
GridOf(H) == Slot(H, Loc(AppObj, GridSlot))

\* The objects of the scene as the constructor leaves them, as they are before
\* an operation, after createResources and after regenerate, and what
\* Settled, CreateResourcesOwned and RegenerateOwned make of these: worked out
\* once and looked up afterwards.
FreshScene == CreateResourcesOwned(NoScene)

SettledScene == Settled(FreshScene)

RebuiltScene == CreateResourcesOwned(SettledScene)

RegeneratedScene == RegenerateOwned(SettledScene, GridOf(SettledScene))

RebuiltRegeneratedScene == RegenerateOwned(RebuiltScene, GridOf(RebuiltScene))

SettledKnown ==
    [h \in {FreshScene, SettledScene, RebuiltScene, RegeneratedScene,
            RebuiltRegeneratedScene} |-> Settled(h)]

RegeneratedKnown ==
    [h \in {SettledScene, RebuiltScene} |-> RegenerateOwned(h, GridOf(h))]

SettledFrom(H) == IF H \in DOMAIN SettledKnown THEN SettledKnown[H] ELSE Settled(H)

RebuiltFrom(H) == IF H = SettledScene THEN RebuiltScene ELSE CreateResourcesOwned(H)

RegeneratedFrom(H) ==
    IF H \in DOMAIN RegeneratedKnown THEN RegeneratedKnown[H]
    ELSE RegenerateOwned(H, GridOf(H))

\* the objects after update: createResources if R is held, regenerate if
\* bounce destroyed a cell
UpdateOwned(H, keyR, cellHit) ==
    The({IF cellHit THEN RegeneratedFrom(c) ELSE c :
            c \in {IF keyR THEN RebuiltFrom(h) ELSE h : h \in {SettledFrom(H)}}})

-----------------------------------------------------------------------------

\* no tick since createResources
NoRun == [n |-> 0, step |-> 0, ended |-> FALSE]

\* the run of ticks after one more tick of bounce(step): it ends with the
\* first tick of another step and with the first wall-x reflection
RunAfter(r, step, wallX) ==
    IF r.ended \/ wallX \/ (r.n > 0 /\ step # r.step)
    THEN [n |-> 0, step |-> 0, ended |-> TRUE]
    ELSE [n |-> r.n + 1, step |-> step, ended |-> FALSE]

\* the state the Application's constructor leaves
GameInit ==
    LET app == CreateResources(Unbuilt)
    IN  /\ player = app.player
        /\ ball = app.ball
        /\ grid = app.grid
        /\ gameOver = app.gameOver
        /\ lossSignals = 0
        /\ outTicks = 0
        /\ rebuilt = app
        /\ drawn = <<>>
        /\ owned = FreshScene
        /\ run = NoRun
        /\ last = NoTick

\* a mutant: update that plays the game-over sound whenever the ball is out of world
LossFiresUnlatched(out, over) == out

\* `if (ball->outOfWorld()) if (!gameOver)`: the narrator plays, gameOver is set
LossFires(out, over) == out /\ ~over

\* a mutant: gameOver follows the signal instead of latching
LatchFollows(over, fires) == fires

\* gameOver after the out-of-world check of update: set with the signal, else kept
Latch(over, fires) == over \/ fires

\* Application::update(deltaTime) with the keys A, D (0 or 1) and R as polled
Update(app, dt, keyA, keyD, keyR) ==
    LET app1 == IF keyR THEN CreateResources(app) ELSE app
        p1 == PlayerMove(app1.player, dt * (-keyA))
        p2 == PlayerMove(p1, dt * keyD)
        r  == Bounce(app1.ball, p2, app1.grid, Times15(dt))
        fires == LossFires(OutOfWorld(r.ball), app1.gameOver)
    IN  [app |-> [player |-> p2, ball |-> r.ball, grid |-> r.grid,
                  gameOver |-> Latch(app1.gameOver, fires)],
         afterCreate |-> app1,
         did |-> [op |-> "tick", rebuild |-> keyR, wasOver |-> app.gameOver,
                  frozen |-> r.frozen, wallX |-> r.wallX,
                  paddleHit |-> r.paddleHit, cellHit |-> r.cellHit, wallY |-> r.wallY,
                  lossFired |-> fires,
                  crossed |-> Crossed(app1.ball, app1.player, r.ball, p2)]]

App == [player |-> player, ball |-> ball, grid |-> grid, gameOver |-> gameOver]

\* no tick or call takes the destroyed-cell list beyond this length
MaxSkipped == 2
\* the ticks of a session that end out of world are counted up to this number
MaxOutTicks == 2

\* one run of update
Tick(dt, keyA, keyD, keyR) ==
    /\ \E u \in {Update(App, dt, keyA, keyD, keyR)} :
           /\ Len(u.app.grid.skippedBoxes) <= MaxSkipped
           /\ player' = u.app.player
           /\ ball' = u.app.ball
           /\ grid' = u.app.grid
           /\ gameOver' = u.app.gameOver
           /\ lossSignals' = (IF keyR THEN 0 ELSE lossSignals)
                             + (IF u.did.lossFired THEN 1 ELSE 0)
           /\ outTicks' = LET n == (IF keyR THEN 0 ELSE outTicks)
                                   + (IF OutOfWorld(u.app.ball) THEN 1 ELSE 0)
                          IN  IF n > MaxOutTicks THEN MaxOutTicks ELSE n
           /\ rebuilt' = IF keyR THEN u.afterCreate ELSE rebuilt
           /\ drawn' = <<>>
           /\ owned' = UpdateOwned(owned, keyR, u.did.cellHit # -1)
           /\ run' = RunAfter(IF keyR THEN NoRun ELSE run, Times15(dt), u.did.wallX)
           /\ last' = u.did

\* a call of the grid's destroyBox(idx) from outside Ball::bounce
DestroyBoxCall(idx) ==
    /\ Len(grid.skippedBoxes) < MaxSkipped
    /\ grid' = DestroyBox(grid, idx)
    /\ owned' = UpdateOwned(owned, FALSE, TRUE)
    /\ last' = [NoTick EXCEPT !.op = "destroyBox", !.rebuild = FALSE, !.wasOver = gameOver]
    /\ UNCHANGED <<player, ball, gameOver, lossSignals, outTicks, rebuilt, drawn, run>>

\* a mutant: a draw that writes the translated position back into the quad
QuadDrawMoves(q, what) ==
    [quad |-> [q EXCEPT !.pos = Vec2(q.pos.x + q.pos.x, q.pos.y + q.pos.y)],
     call |-> [what |-> what, at |-> q.pos]]

\* Quad::draw: the quad after it and the draw call, with the model matrix's translation
QuadDraw(q, what) == [quad |-> q, call |-> [what |-> what, at |-> q.pos]]

\* BoxGrid::draw: the grid after it and the draw call, with the identity model matrix
GridDraw(g) == [grid |-> g, call |-> [what |-> "grid", at |-> Vec2(0, 0)]]

\* Application::render
Render ==
    LET d1 == QuadDraw(player, "paddle")
        d2 == QuadDraw(ball, "ball")
        d3 == GridDraw(grid)
    IN  /\ player' = d1.quad
        /\ ball' = d2.quad
        /\ grid' = d3.grid
        /\ drawn' = <<d1.call, d2.call, d3.call>>
        /\ last' = [NoTick EXCEPT !.op = "render", !.rebuild = FALSE, !.wasOver = gameOver]
        /\ UNCHANGED <<gameOver, lossSignals, outTicks, rebuilt, owned, run>>

\* deltaTime, in 1/6000 s: 0.1 s and 0.3 s
DeltaTimes == {600, 1800}

\* deltaTime of the ticks that run between outside destroyBox calls
GridDeltaTimes == {600}

\* deltaTime of a run with stalled frames: 0.1 s and 1.3 s
LongDeltaTimes == {600, 7800}

\* deltaTime of a run at 20 and 10 frames per second: 0.05 s and 0.1 s
SlowDeltaTimes == {300, 600}

\* deltaTime of a short frame: 1/120 s
ShortDeltaTimes == {50}

\* where short frames are followed: the ball is at the height of the paddle's
\* catch zone and the second cell is not destroyed yet
NearCatchZone ==
    /\ ball.pos.y <= -6300
    /\ ball.pos.y > -7500
    /\ Len(grid.skippedBoxes) = 1

\* the indices of the outside destroyBox calls; the last one is no cell's
DirectIdx == {37, 66, 70}

-----------------------------------------------------------------------------
(* A free-standing Quad under moveX / moveY calls *)

\* the amounts of the calls: small, large, far beyond the world
Amounts == {-60000, -2700, 2700, 60000}

QuadInit ==
    /\ quad \in {FreshPlayer, [pos |-> FreshBall.pos, size |-> FreshBall.size]}
    /\ quadLast = [axis |-> "none", amount |-> 0]

QuadMoveX(a) ==
    /\ quad' = MoveX(quad, a)
    /\ quadLast' = [axis |-> "x", amount |-> a]

QuadMoveY(a) ==
    /\ quad' = MoveY(quad, a)
    /\ quadLast' = [axis |-> "y", amount |-> a]

-----------------------------------------------------------------------------
(* The specifications *)

\* the parts a specification leaves alone
RefIdle == RefInit
WrapIdle == WrapInit /\ wKind = "Buffer"
QuadIdle == QuadInit /\ quad = FreshPlayer

\* the scene driven by update ticks
Init == RefIdle /\ WrapIdle /\ QuadIdle /\ GameInit

Next ==
    \E dt \in DeltaTimes, keyA, keyD \in 0..1, keyR \in BOOLEAN :
        Tick(dt, keyA, keyD, keyR) /\ UNCHANGED <<refVars, wrapVars, quadVars>>

Spec == Init /\ [][Next]_vars

\* the scene driven by update ticks and by outside destroyBox calls
NextGrid ==
    \/ \E idx \in DirectIdx :
          DestroyBoxCall(idx) /\ UNCHANGED <<refVars, wrapVars, quadVars>>
    \/ \E dt \in GridDeltaTimes, keyA, keyD \in 0..1, keyR \in BOOLEAN :
          Tick(dt, keyA, keyD, keyR) /\ UNCHANGED <<refVars, wrapVars, quadVars>>

SpecGrid == Init /\ [][NextGrid]_vars

\* the scene driven by update ticks, some of them after a stalled frame
NextLong ==
    \E dt \in LongDeltaTimes, keyA, keyD \in 0..1, keyR \in BOOLEAN :
        Tick(dt, keyA, keyD, keyR) /\ UNCHANGED <<refVars, wrapVars, quadVars>>

SpecLong == Init /\ [][NextLong]_vars

\* the frame loop of Application::run with frames of 0.1 s, the D key never
\* held: as long as the window is open another update follows
NextLive ==
    \E dt \in GridDeltaTimes, keyA \in 0..1, keyR \in BOOLEAN :
        Tick(dt, keyA, 0, keyR) /\ UNCHANGED <<refVars, wrapVars, quadVars>>

SpecLive == Init /\ [][NextLive]_vars /\ WF_vars(NextLive)

\* the scene driven by update ticks of 0.1 s and, near the catch zone, of
\* 1/120 s with no paddle key held
NextShort ==
    \/ \E dt \in GridDeltaTimes, keyA, keyD \in 0..1, keyR \in BOOLEAN :
          Tick(dt, keyA, keyD, keyR) /\ UNCHANGED <<refVars, wrapVars, quadVars>>
    \/ \E dt \in ShortDeltaTimes :
          NearCatchZone /\ Tick(dt, 0, 0, FALSE)
             /\ UNCHANGED <<refVars, wrapVars, quadVars>>

SpecShort == Init /\ [][NextShort]_vars

\* the frame loop: render and update
NextFrame ==
    \/ Render /\ UNCHANGED <<refVars, wrapVars, quadVars>>
    \/ \E dt \in GridDeltaTimes, keyA, keyD \in 0..1, keyR \in BOOLEAN :
          Tick(dt, keyA, keyD, keyR) /\ UNCHANGED <<refVars, wrapVars, quadVars>>

SpecFrame == Init /\ [][NextFrame]_vars

\* the scene driven by update ticks whose step is shorter than a cell is high
NextSlow ==
    \E dt \in SlowDeltaTimes, keyA, keyD \in 0..1, keyR \in BOOLEAN :
        Tick(dt, keyA, keyD, keyR) /\ UNCHANGED <<refVars, wrapVars, quadVars>>

SpecSlow == Init /\ [][NextSlow]_vars

\* handles under the RefCnt operations on non-empty sources, copy assignment
\* between two distinct handle variables only
InitRef == RefInit /\ WrapIdle /\ QuadIdle /\ GameInit

NextRef ==
    \/ \E h \in Handles, o \in Objects :
          Make(h, o) /\ UNCHANGED <<wrapVars, quadVars, gameVars>>
    \/ \E d, s \in Handles :
          NonEmpty(s) /\ CopyCtor(d, s) /\ UNCHANGED <<wrapVars, quadVars, gameVars>>
    \/ \E d, s \in Handles :
          NonEmpty(s) /\ d # s /\ CopyAssign(d, s)
          /\ UNCHANGED <<wrapVars, quadVars, gameVars>>
    \/ \E d, s \in Handles :
          NonEmpty(s) /\ MoveCtor(d, s) /\ UNCHANGED <<wrapVars, quadVars, gameVars>>
    \/ \E d, s \in Handles :
          NonEmpty(s) /\ MoveAssign(d, s) /\ UNCHANGED <<wrapVars, quadVars, gameVars>>
    \/ \E h \in Handles : Dtor(h) /\ UNCHANGED <<wrapVars, quadVars, gameVars>>

SpecRef == InitRef /\ [][NextRef]_vars

\* handles under every RefCnt operation: empty sources, and copy assignment of a
\* handle to itself, included.  A run ends at its first undefined behaviour.
NextRefAny ==
    \/ \E h \in Handles, o \in Objects :
          refUB = "none" /\ Make(h, o) /\ UNCHANGED <<wrapVars, quadVars, gameVars>>
    \/ \E h \in Handles :
          refUB = "none" /\ DefaultCtor(h) /\ UNCHANGED <<wrapVars, quadVars, gameVars>>
    \/ \E d, s \in Handles :
          refUB = "none" /\ CopyCtor(d, s) /\ UNCHANGED <<wrapVars, quadVars, gameVars>>
    \/ \E d, s \in Handles :
          refUB = "none" /\ CopyAssign(d, s) /\ UNCHANGED <<wrapVars, quadVars, gameVars>>
    \/ \E d, s \in Handles :
          refUB = "none" /\ MoveCtor(d, s) /\ UNCHANGED <<wrapVars, quadVars, gameVars>>
    \/ \E d, s \in Handles :
          refUB = "none" /\ MoveAssign(d, s) /\ UNCHANGED <<wrapVars, quadVars, gameVars>>
    \/ \E h \in Handles :
          refUB = "none" /\ Dtor(h) /\ UNCHANGED <<wrapVars, quadVars, gameVars>>

SpecRefAny == InitRef /\ [][NextRefAny]_vars

\* wrappers of one class under construction, move and destruction
InitWrap == RefIdle /\ WrapInit /\ QuadIdle /\ GameInit

NextWrap ==
    \/ \E w \in Wrappers : WCreate(w) /\ UNCHANGED <<refVars, quadVars, gameVars>>
    \/ \E w \in Wrappers : WDtor(w) /\ UNCHANGED <<refVars, quadVars, gameVars>>
    \/ \E d, s \in Wrappers : WMoveCtor(d, s) /\ UNCHANGED <<refVars, quadVars, gameVars>>
    \/ \E d, s \in Wrappers : WMoveAssign(d, s) /\ UNCHANGED <<refVars, quadVars, gameVars>>

SpecWrap == InitWrap /\ [][NextWrap]_vars

\* a paddle-sized or ball-sized quad under arbitrary moves
InitQuad == RefIdle /\ WrapIdle /\ QuadInit /\ GameInit

NextQuad ==
    \/ \E a \in Amounts : QuadMoveX(a) /\ UNCHANGED <<refVars, wrapVars, gameVars>>
    \/ \E a \in Amounts : QuadMoveY(a) /\ UNCHANGED <<refVars, wrapVars, gameVars>>

SpecQuad == InitQuad /\ [][NextQuad]_vars

-----------------------------------------------------------------------------
(* The claims *)

\* C1 (SpecRef): under make, copy and move construction, copy assignment
\* between distinct variables, move assignment and destruction, with non-empty
\* sources, an object's reference count is the number of handles referencing
\* it; it is deleted exactly once, by the operation that drops its last
\* reference (count 1 to 0), never while a handle references it, and no
\* operation touches a deleted object.  The incoming reference of a copy adds
\* one, a move adds none and empties its source, a dropped reference (a
\* destroyed handle, or what an assigned handle held) subtracts one.
C1_CountIsHandles ==
    /\ refUB = "none"
    /\ \A o \in Objects :
        /\ heap[o].made => heap[o].count = NumHandles(o)
        /\ ~heap[o].made => NumHandles(o) = 0
        /\ heap[o].freed = (IF heap[o].made /\ NumHandles(o) = 0 THEN 1 ELSE 0)
    /\ LET obj  == lastRef.obj
           drop == lastRef.dropped
           in   == IF lastRef.op \in {"copyCtor", "copyAssign"} THEN 1 ELSE 0
           out  == IF drop = obj THEN 1 ELSE 0
       IN  /\ lastRef.op \in {"copyCtor", "copyAssign", "moveCtor", "moveAssign"}
                => heap[obj].count = lastRef.before + in - out
           /\ lastRef.op \in {"moveCtor", "moveAssign"} => hObject[lastRef.src] = 0
           /\ drop # 0 /\ drop # obj
                => heap[drop].count = lastRef.droppedBefore - 1
           /\ lastRef.op = "dtor" /\ drop # 0
                => heap[drop].count = lastRef.droppedBefore - 1
           /\ drop # 0 => (heap[drop].freed = 1 <=> heap[drop].count = 0)
           /\ \A o \in Objects : heap[o].freed = 1 /\ o # drop => heap[o].count = 0

\* C1: a handle was copied, the original and the copy were both dropped (the
\* second drop deleted the object), while another object lives on with two handles
C1_Witness ==
    /\ lastRef.op = "dtor"
    /\ lastRef.droppedBefore = 1
    /\ heap[lastRef.dropped].freed = 1
    /\ \E o \in Objects : heap[o].count = 2 /\ heap[o].freed = 0

\* C2 (SpecWrap): after a move construction or a move assignment the moved-from
\* wrapper holds id 0 and the destination holds the source's former id; no
\* native id is passed to its native delete call twice, and once no wrapper
\* is left every id handed out was deleted exactly once.
C2_MovedFromIsZero ==
    /\ lastWrap.op \in {"moveCtor", "moveAssign"}
         => wId[lastWrap.src] = 0 /\ wId[lastWrap.dst] = lastWrap.srcId
    /\ \A i \in Ids : nativeDeleted[i] <= 1
    /\ (\A w \in Wrappers : wId[w] = -1)
         => \A i \in Ids : i < nextId => nativeDeleted[i] = 1

\* C3 (SpecQuad): whatever the amounts of the moveX / moveY calls, position.x
\* stays within -(2.0 - size.x/2) .. 2.0 - size.x/2 and position.y within
\* -(1.5 - size.y/2) - 1.0 .. 1.5 - size.y/2: a paddle-sized quad has x in
\* -1.8 .. 1.8, a ball-sized one x in -1.95 .. 1.95 and y in -2.45 .. 1.45.
C3_ClampInvariant ==
    /\ quad.pos.x >= -(12000 - quad.size.x \div 2)
    /\ quad.pos.x <= 12000 - quad.size.x \div 2
    /\ quad.pos.y >= -(9000 - quad.size.y \div 2) - 6000
    /\ quad.pos.y <= 9000 - quad.size.y \div 2
    /\ quad.size = Vec2(2400, 300) => quad.pos.x \in -10800..10800
    /\ quad.size = Vec2(600, 600) =>
         quad.pos.x \in -11700..11700 /\ quad.pos.y \in -14700..8700

\* C3: a ball-sized quad that a move beyond the world has left on its upper
\* y limit, after one had left it on its lower x limit
C3_Witness ==
    /\ quad.size = Vec2(600, 600)
    /\ quadLast = [axis |-> "y", amount |-> 60000]
    /\ quad.pos = Vec2(-11700, 8700)

\* C4 (Spec): between two rebuilds the loss signal (the narrator plays and
\* gameOver is set) fires exactly once, in the first tick that ends with
\* outOfWorld(), and in no later tick however long the ball stays below.
C4_OneShotGameOver ==
    /\ lossSignals = (IF outTicks >= 1 THEN 1 ELSE 0)
    /\ gameOver <=> lossSignals = 1
    /\ last.lossFired <=> (last.op = "tick" /\ OutOfWorld(ball) /\ outTicks = 1)

\* C4: a later tick of the session ended out of world again, without a signal
C4_Witness ==
    /\ last.op = "tick"
    /\ outTicks >= 2
    /\ OutOfWorld(ball)
    /\ ~last.lossFired
    /\ lossSignals = 1

\* C5 (Spec): an operation that starts with gameOver set, and is no update
\* with a rebuild, ends with gameOver set.
C5_GameOverLatched == (last.wasOver /\ ~last.rebuild) => gameOver

\* C5: a tick without rebuild that started and ended with gameOver set
C5_Witness == last.op = "tick" /\ last.wasOver /\ ~last.rebuild /\ gameOver

\* whether a box has all four corners at the sentinel position (-100, -100)
AtSentinel(box) ==
    \A c \in {box.topLeft, box.bottomLeft, box.bottomRight, box.topRight} :
        c = Vec2(-600000, -600000)

\* C6 (Spec): whatever the state before, createResources leaves the paddle at
\* (0, -0.6), the ball at (0, 0) with xStep = yStep = +1, a grid of 10 x 7
\* cells with an empty destroyed-cell list and no cell at the sentinel, and
\* gameOver false.
C6_RebuildResets ==
    /\ rebuilt.player.pos = Vec2(0, -3600)
    /\ rebuilt.ball.pos = Vec2(0, 0)
    /\ rebuilt.ball.xStep = 1
    /\ rebuilt.ball.yStep = 1
    /\ rebuilt.grid.countX = 10
    /\ rebuilt.grid.countY = 7
    /\ Len(rebuilt.grid.vertices) = 70
    /\ rebuilt.grid.skippedBoxes = <<>>
    /\ \A k \in 1..Len(rebuilt.grid.vertices) : ~AtSentinel(rebuilt.grid.vertices[k])
    /\ rebuilt.gameOver = FALSE

\* C6: an update rebuilt a scene that was in the game-over state
C6_Witness == last.op = "tick" /\ last.rebuild /\ last.wasOver

\* C7 (SpecGrid): a tick without rebuild and a destroyBox call only append to
\* the destroyed-cell list, and after them every cell whose index is in the
\* list is at the sentinel.
C7_GridMonotone ==
    [][(last'.op \in {"tick", "destroyBox"} /\ ~last'.rebuild) =>
          /\ Len(grid'.skippedBoxes) >= Len(grid.skippedBoxes)
          /\ SubSeq(grid'.skippedBoxes, 1, Len(grid.skippedBoxes)) = grid.skippedBoxes
          /\ \A k \in 1..Len(grid'.skippedBoxes) :
                grid'.skippedBoxes[k] < Len(grid'.vertices)
                   => AtSentinel(grid'.vertices[grid'.skippedBoxes[k] + 1])]_vars

\* C7: the ball destroyed a second cell and the first one is still at the sentinel
C7_Witness ==
    /\ last.op = "tick"
    /\ Len(grid.skippedBoxes) = 2
    /\ last.cellHit = grid.skippedBoxes[2]
    /\ grid.skippedBoxes[1] # grid.skippedBoxes[2]
    /\ grid.skippedBoxes[1] < 70
    /\ AtSentinel(grid.vertices[grid.skippedBoxes[1] + 1])

\* ball positions across the ball's clamp range, its four corners included
BallProbes ==
    {Vec2(x, y) : x \in {-11700, -6000, 0, 6000, 11700},
                  y \in {-14700, -7200, 0, 4200, 8700}}

\* C8 (SpecGrid): the box of a destroyed cell is hit at no ball position of the
\* clamp range (the probes and where the ball is) with bias 0.02, and the
\* cell a tick destroys was not destroyed before.
C8_DestroyedNeverHit ==
    /\ \A k \in 1..Len(grid.skippedBoxes) :
          grid.skippedBoxes[k] < Len(grid.vertices) =>
              \A p \in BallProbes \cup {ball.pos} :
                  ~Hit(grid.vertices[grid.skippedBoxes[k] + 1], p, ball.size, 120)
    /\ last.cellHit # -1 =>
          Cardinality({k \in 1..Len(grid.skippedBoxes) :
                          grid.skippedBoxes[k] = last.cellHit}) = 1

\* C8: a tick left the ball where a cell destroyed before that tick used to be
C8_Witness ==
    /\ last.op = "tick"
    /\ ~last.rebuild
    /\ \E k \in 1..Len(grid.skippedBoxes) :
          /\ grid.skippedBoxes[k] # last.cellHit
          /\ grid.skippedBoxes[k] < Len(grid.vertices)
          /\ Hit(rebuilt.grid.vertices[grid.skippedBoxes[k] + 1], ball.pos, ball.size, 120)

\* C9 as claimed (SpecGrid): a destroyBox call with an index the list already
\* holds leaves the length of the list unchanged.
C9_Idempotent ==
    [][\A idx \in DirectIdx :
          (DestroyBoxCall(idx) /\ IsSkipped(grid.skippedBoxes, idx))
             => Len(grid'.skippedBoxes) = Len(grid.skippedBoxes)]_vars

\* C9 amended (SpecGrid): a destroyBox call with an index the list already
\* holds appends the index once more (the list grows by one); the cell array
\* is the same after the call.
C9_DuplicateAppended ==
    [][\A idx \in DirectIdx :
          (DestroyBoxCall(idx) /\ IsSkipped(grid.skippedBoxes, idx))
             => /\ grid'.skippedBoxes = Append(grid.skippedBoxes, idx)
                /\ grid'.vertices = grid.vertices]_vars

\* C9: destroyBox(37) was called twice
C9_Witness == last.op = "destroyBox" /\ grid.skippedBoxes = <<37, 37>>

\* the cells of a grid that are where createResources put them
Unmoved(g) == {k \in 1..Len(g.vertices) : g.vertices[k] = rebuilt.grid.vertices[k]}

\* C10 as claimed (SpecGrid): after destroyBox(37) on the fresh grid exactly
\* one cell is at the sentinel, and the remaining cells, 62 of them, are
\* where they were.
C10_Remaining62 ==
    grid.skippedBoxes = <<37>> =>
        /\ Cardinality({k \in 1..Len(grid.vertices) : AtSentinel(grid.vertices[k])}) = 1
        /\ Cardinality(Unmoved(grid)) = 62
        /\ Unmoved(grid) = (1..Len(grid.vertices)) \ {38}

\* C10 amended (SpecGrid): after destroyBox(37) on the fresh 10 x 7 grid
\* exactly one cell, cell 37, is at the sentinel, and the remaining cells, 69
\* of them, are where they were.
C10_Remaining69 ==
    grid.skippedBoxes = <<37>> =>
        /\ Len(grid.vertices) = 70
        /\ {k \in 1..Len(grid.vertices) : AtSentinel(grid.vertices[k])} = {38}
        /\ Cardinality(Unmoved(grid)) = 69
        /\ Unmoved(grid) = (1..Len(grid.vertices)) \ {38}

\* C10: destroyBox(37) was called on the fresh grid
C10_Witness == last.op = "destroyBox" /\ grid.skippedBoxes = <<37>>

\* C11 (SpecLong): a tick that ends with ball.x > 1.949 has set xStep to -1
\* in its wall-x check, and the next tick without rebuild that moves the ball
\* strictly decreases ball.x; a tick that ends with ball.x < -1.949 has set
\* xStep to +1, and the next such tick strictly increases ball.x.
C11_ReflectionReverses ==
    [][(last'.op = "tick" /\ ~last'.rebuild /\ ~last'.frozen) =>
          /\ ball'.pos.x > 11694 => last'.wallX /\ ball'.xStep = -1
          /\ ball'.pos.x < -11694 => last'.wallX /\ ball'.xStep = 1
          /\ (last.op = "tick" /\ last.wallX /\ ball.pos.x > 11694)
                => ball'.pos.x < ball.pos.x
          /\ (last.op = "tick" /\ last.wallX /\ ball.pos.x < -11694)
                => ball'.pos.x > ball.pos.x]_vars

\* C11: the ball is one 0.15 step left of the right clamp limit and moving
\* left: the tick before this one reflected it at the right wall
C11_Witness ==
    /\ last.op = "tick"
    /\ ~last.rebuild
    /\ ~last.frozen
    /\ ball.xStep = -1
    /\ ball.pos.x = 11700 - 900

\* C11, the left wall: one 0.15 step right of the left clamp limit, moving right
C11_WitnessLeft ==
    /\ last.op = "tick"
    /\ ~last.rebuild
    /\ ~last.frozen
    /\ ball.xStep = 1
    /\ ball.pos.x = -11700 + 900

\* C12 (SpecFrame): render leaves the paddle, the ball (position, xStep,
\* yStep), the grid (every cell, the destroyed-cell list) and gameOver as
\* they were, and issues the draw calls of the paddle, the ball and the grid
\* in this order, the paddle's and the ball's with their current position.
C12_RenderReadsOnly ==
    [][last'.op = "render" =>
          /\ player' = player
          /\ ball' = ball
          /\ grid' = grid
          /\ gameOver' = gameOver
          /\ Len(drawn') = 3
          /\ drawn'[1] = [what |-> "paddle", at |-> player.pos]
          /\ drawn'[2] = [what |-> "ball", at |-> ball.pos]
          /\ drawn'[3].what = "grid"]_vars

\* C12: a render of a scene in play: the ball has left the origin and a cell
\* is destroyed
C12_Witness ==
    /\ last.op = "render"
    /\ Len(drawn) = 3
    /\ drawn[2].at = ball.pos
    /\ ball.pos # Vec2(0, 0)
    /\ Len(grid.skippedBoxes) >= 1

\* C13 as claimed (SpecLong): an update tick in which no rebuild is requested
\* creates no native resource.
C13_NoCreationInTicks ==
    [][(last'.op = "tick" /\ ~last'.rebuild) => grid'.created = grid.created]_vars

\* C13 amended (SpecLong): an update tick without rebuild creates native
\* resources exactly when the ball destroys a cell in it: destroyBox runs
\* regenerate, which makes a new vertex buffer, index buffer, vertex array and
\* shader program (four creations that can fail); a tick without rebuild and
\* without a cell hit creates none.
C13_CreationOnCellHit ==
    [][(last'.op = "tick" /\ ~last'.rebuild) =>
          grid'.created = grid.created + (IF last'.cellHit # -1 THEN 4 ELSE 0)]_vars

\* C13: a tick without rebuild destroyed a cell, and the grid has made its
\* second set of native objects
C13_Witness ==
    /\ last.op = "tick"
    /\ ~last.rebuild
    /\ last.cellHit # -1
    /\ grid.created = 8

\* C14 as claimed (SpecLong): there is no tick in which the wall-x check sets
\* xStep and a paddle hit, a cell hit or the wall-y check changes yStep.
C14_OneReflectionPerTick ==
    last.op = "tick" =>
        ~(last.wallX /\ (last.paddleHit \/ last.cellHit # -1 \/ last.wallY))

\* the number of y reflections (paddle hit, cell hit, wall-y) the tick made
YReflections(did) ==
    (IF did.paddleHit THEN 1 ELSE 0) + (IF did.cellHit # -1 THEN 1 ELSE 0)
        + (IF did.wallY THEN 1 ELSE 0)

\* C14 amended (SpecLong): in every tick at most one of the three y
\* reflections (paddle hit, cell hit, wall-y) happens, and yStep changes only
\* by it; the wall-x check is independent of them and xStep changes only by it.
C14_OneYReflectionPerTick ==
    [][(last'.op = "tick" /\ ~last'.rebuild) =>
          /\ YReflections(last') <= 1
          /\ YReflections(last') = 0 => ball'.yStep = ball.yStep
          /\ (last'.paddleHit \/ last'.cellHit # -1) => ball'.yStep = -ball.yStep
          /\ last'.wallY => ball'.yStep = -1
          /\ ~last'.wallX => ball'.xStep = ball.xStep]_vars

\* C14: a tick reflected the ball at the right wall and at a cell: both steps
\* are now negative
C14_Witness ==
    /\ last.op = "tick"
    /\ last.wallX
    /\ last.cellHit # -1
    /\ ball.xStep = -1
    /\ ball.yStep = -1

\* C15 as claimed (SpecLong): in every update tick without rebuild that starts
\* with gameOver set, the ball and the grid are the same at the end of the
\* tick as at its start.
C15_FrozenWhenGameOver ==
    [][(last'.op = "tick" /\ ~last'.rebuild /\ gameOver) =>
          ball' = ball /\ grid' = grid]_vars

\* C15 amended (SpecLong): in every update tick without rebuild that starts with
\* ball.y < -1.549 the ball and the grid are the same at the end as at the
\* start; gameOver is set whenever the ball is that low, but a tick that
\* starts with gameOver set and ball.y in -1.549 .. -1.449 moves the ball
\* further down.
C15_FrozenBelowMargin ==
    [][(last'.op = "tick" /\ ~last'.rebuild) =>
          /\ ball.pos.y < -9294 => ball' = ball /\ grid' = grid /\ gameOver
          /\ (gameOver /\ ball.pos.y >= -9294) =>
                /\ ball.pos.y < -8694
                /\ ball'.pos.y < ball.pos.y
                /\ grid' = grid]_vars

\* C15: a tick that started with the ball below -1.549 and gameOver set
C15_Witness ==
    /\ last.op = "tick"
    /\ ~last.rebuild
    /\ last.wasOver
    /\ last.frozen
    /\ ball.pos.y < -9294

\* C16 (Spec): the two paddle moves of a tick (-dt*1.5 with the left key,
\* +dt*1.5 with the right key) move the paddle as one moveX by their sum
\* would, at every paddle position; with both keys held the paddle's x is
\* the same after the tick.
C16_ImpulsesSum ==
    [][\A dt \in DeltaTimes, keyA, keyD \in 0..1 :
          Tick(dt, keyA, keyD, FALSE) =>
             /\ player'.pos.x = MoveX(player, Times15(dt * keyD - dt * keyA)).pos.x
             /\ (keyA = 1 /\ keyD = 1) => player'.pos.x = player.pos.x]_vars

\* C17 (SpecShort): if the paddle check succeeds in a tick, it does not
\* succeed in the next tick (without rebuild), whatever the step.
C17_NudgePreventsRehit ==
    [][(last.op = "tick" /\ last.paddleHit /\ last'.op = "tick" /\ ~last'.rebuild)
          => ~last'.paddleHit]_vars

\* the cells of a cell array whose hit test succeeds for a ball at a position
HitCells(boxes, position, size) ==
    {j \in 0..(Len(boxes) - 1) : Hit(boxes[j + 1], position, size, 120)}

\* C18 (SpecLong): a tick destroys at most one cell; the cell it destroys is the
\* lowest-index cell whose hit test succeeds at the ball's position after the
\* move, yStep is negated in that tick, and a tick in which the paddle check
\* succeeded destroys no cell.
C18_FirstHitDestroyed ==
    [][(last'.op = "tick" /\ ~last'.rebuild) =>
          /\ last'.cellHit = -1 => grid'.skippedBoxes = grid.skippedBoxes
          /\ last'.cellHit # -1 =>
                /\ grid'.skippedBoxes = Append(grid.skippedBoxes, last'.cellHit)
                /\ last'.cellHit \in HitCells(grid.vertices, ball'.pos, ball'.size)
                /\ \A j \in HitCells(grid.vertices, ball'.pos, ball'.size) :
                      last'.cellHit <= j
                /\ ball'.yStep = -ball.yStep
                /\ ~last'.paddleHit
          /\ last'.paddleHit => grid' = grid]_vars

\* C18: a tick destroyed a cell while the hit test of a cell of higher index
\* succeeded at the same ball position; that cell is still there
C18_Witness ==
    /\ last.op = "tick"
    /\ ~last.rebuild
    /\ last.cellHit # -1
    /\ Hit(rebuilt.grid.vertices[last.cellHit + 1], ball.pos, ball.size, 120)
    /\ HitCells(grid.vertices, ball.pos, ball.size) # {}
    /\ \A j \in HitCells(grid.vertices, ball.pos, ball.size) : last.cellHit < j

\* the position cell (x, y) has in a fresh grid: the origin plus x and y
\* multiples of the cell size plus the margin
FreshBox(g, x, y) ==
    BoxAt(g.position.x + x * (g.margin + g.boxSize.x),
          g.position.y - y * (g.margin + g.boxSize.y), g.boxSize)

\* the cell array of g has countX*countY entries and every cell whose index
\* is not in the destroyed list is where the fresh grid has it
IndexStable(g, fresh) ==
    /\ Len(g.vertices) = g.countX * g.countY
    /\ \A y \in 0..(g.countY - 1), x \in 0..(g.countX - 1) :
          ~IsSkipped(g.skippedBoxes, y * g.countX + x) =>
              /\ g.vertices[y * g.countX + x + 1] = FreshBox(g, x, y)
              /\ g.vertices[y * g.countX + x + 1] = fresh.vertices[y * g.countX + x + 1]

\* C19 (SpecGrid): before and after every step the cell array has
\* countX*countY entries and every cell whose index is not in the destroyed
\* list has the position of the fresh grid; a destroyBox call or a tick
\* without rebuild changes no cell but the one whose index it appended.
C19_IndexStable ==
    [][/\ IndexStable(grid, rebuilt.grid)
       /\ IndexStable(grid', rebuilt'.grid)
       /\ (last'.op = "destroyBox" \/ (last'.op = "tick" /\ ~last'.rebuild)) =>
             /\ Len(grid'.vertices) = Len(grid.vertices)
             /\ \A k \in 1..Len(grid.vertices) :
                   (grid'.vertices[k] # grid.vertices[k]) =>
                       /\ Len(grid'.skippedBoxes) = Len(grid.skippedBoxes) + 1
                       /\ grid'.skippedBoxes[Len(grid'.skippedBoxes)] = k - 1]_vars

\* C19: two different cells were destroyed, the second by a destroyBox call, and a
\* cell between them and a cell after both are where the fresh grid has them
C19_Witness ==
    /\ last.op = "destroyBox"
    /\ Len(grid.skippedBoxes) = 2
    /\ grid.skippedBoxes[2] + 1 < grid.skippedBoxes[1]
    /\ grid.skippedBoxes[1] + 1 < Len(grid.vertices)
    /\ AtSentinel(grid.vertices[grid.skippedBoxes[1] + 1])
    /\ AtSentinel(grid.vertices[grid.skippedBoxes[2] + 1])
    /\ ~AtSentinel(grid.vertices[grid.skippedBoxes[2] + 2])
    /\ grid.vertices[grid.skippedBoxes[1] + 2] = rebuilt.grid.vertices[grid.skippedBoxes[1] + 2]

\* the rectangle of the paddle (position +/- size/2), moved down by `down`
PaddleBox(p, down) == BoxAt(p.pos.x, p.pos.y - down, p.size)

\* where the ball was when the last tick ran its paddle check: a paddle hit
\* has moved it up by the nudge since
CheckedAt ==
    IF last.paddleHit THEN Vec2(ball.pos.x, ball.pos.y - Nudge) ELSE ball.pos

\* C20 as claimed (Spec): a tick that ran the paddle check with the ball,
\* expanded by the ball bias 0.02, overlapping the paddle's rectangle
\* (position +/- size/2) had the paddle check succeed.
C20_CatchZoneContainsPaddle ==
    (/\ last.op = "tick"
     /\ ~last.frozen
     /\ Hit(PaddleBox(player, 0), CheckedAt, ball.size, SelfCollisionBias))
        => last.paddleHit

\* C20 amended (Spec): a tick that ran the paddle check had it succeed exactly
\* when the ball, expanded by the ball bias 0.02, overlapped the paddle's
\* rectangle moved down by 0.6 along y; the catch zone is as tall as the
\* paddle's rectangle expanded by the ball bias and does not meet it.
C20_CatchZoneShifted ==
    (last.op = "tick" /\ ~last.frozen) =>
        /\ last.paddleHit <=>
              Hit(PaddleBox(player, PaddleCollisionBias), CheckedAt, ball.size,
                  SelfCollisionBias)
        /\ last.paddleHit =>
              ~Hit(PaddleBox(player, 0), CheckedAt, ball.size, SelfCollisionBias)

\* C20: the paddle check succeeded with the ball 0.6 below the paddle's rectangle
C20_Witness ==
    /\ last.op = "tick"
    /\ last.paddleHit
    /\ CheckedAt.y + SelfCollisionBias < PaddleBox(player, 0).bottomRight.y
    /\ Hit(PaddleBox(player, PaddleCollisionBias), CheckedAt, ball.size, SelfCollisionBias)

\* the smaller of two numbers
Min(a, b) == IF a < b THEN a ELSE b

\* C21 (Spec): while the ticks since createResources have all had the same
\* step s and none of them has reflected the ball at a side wall, ball.x after
\* N of them is min(N*s, xBouncePoint) and xStep is still +1, whatever cell
\* hits, paddle hits and top-wall reflections those ticks had; and no tick's
\* cell hit, paddle hit or top-wall reflection changes xStep.
C21_XBeforeReflection ==
    [][/\ (last'.op = "tick" /\ run'.n > 0) =>
             /\ ball'.pos.x = Min(run'.n * run'.step, XBouncePoint(ball'))
             /\ ball'.xStep = 1
       /\ (last'.op = "tick" /\ ~last'.rebuild /\ ~last'.wallX) =>
             ball'.xStep = ball.xStep]_vars

\* C21: the third or a later tick of such a run hit a cell, after which ball.x
\* is still N*s
C21_Witness ==
    /\ last.op = "tick"
    /\ run.n >= 3
    /\ last.cellHit # -1
    /\ ball.yStep = -1
    /\ ball.pos.x = run.n * run.step

\* C22 (Spec): the paddle test looks at the ball where the tick's move has
\* put it and nowhere else: a tick that finds the ball above the band of the
\* test, within the paddle's extent, and leaves it below the band, within the
\* paddle's extent, records no paddle hit and leaves the ball moving down.
C22_NoSweptCheck ==
    [][(last'.op = "tick" /\ ~last'.rebuild /\ Crossed(ball, player, ball', player')) =>
          /\ last'.crossed
          /\ ~last'.paddleHit
          /\ ball'.yStep = -1
          /\ ball'.pos.y < ball.pos.y]_vars

\* C22: a tick has taken the descending ball from above the band to below it,
\* within the paddle's extent before and after, and recorded no paddle hit;
\* the ball has not reached the freeze threshold or the loss bound by then
C22_Witness ==
    /\ last.op = "tick"
    /\ ~last.rebuild
    /\ last.crossed
    /\ ~last.paddleHit
    /\ ball.yStep = -1
    /\ BelowBand(ball, player) /\ WithinExtent(ball, player)

\* the places of the log at which an object of the given kind was deleted
DeletedAt(H, kind) == {i \in 1..Len(H.log) : H.objs[H.log[i].obj].kind = kind}

\* the objects that are not deleted
Alive(H) == {o \in 1..Len(H.objs) : H.objs[o].deleted = 0}

\* C23 (SpecLong): after a tick that has run createResources, every object of
\* the scene before it (paddle, grid, ball, their buffers, vertex arrays,
\* shaders and audio objects) has count 0 and was deleted exactly once, when no
\* handle to it was left; the old ball was deleted before the old paddle and
\* the old grid; no handle of an object alive refers to a deleted object, and
\* the objects alive are the Application and the 17 objects of the new scene.
C23_RebuildReleasesAll ==
    (last.op = "tick" /\ last.rebuild) =>
        /\ owned.ub = "none"
        /\ Cardinality(owned.was) = 18
        /\ \A o \in owned.was \ {AppObj} :
              /\ owned.objs[o].deleted = 1
              /\ owned.objs[o].count = 0
              /\ Cardinality({i \in 1..Len(owned.log) : owned.log[i].obj = o}) = 1
        /\ \A i \in 1..Len(owned.log) : owned.log[i].handles = 0
        /\ \A b \in DeletedAt(owned, "Ball") :
              \A i \in DeletedAt(owned, "PlayerPlatform") \cup DeletedAt(owned, "BoxGrid") :
                  b < i
        /\ \A l \in LiveLocs(owned) :
              Slot(owned, l) # 0 => owned.objs[Slot(owned, l)].deleted = 0
        /\ Alive(owned) \cap owned.was = {AppObj}
        /\ Cardinality(Alive(owned)) = 18
        /\ \A o \in Alive(owned) :
              owned.objs[o].count = IF o = AppObj THEN 1 ELSE HandlesTo(owned, o, Loc(0, 0))

\* C23: a tick has rebuilt a scene and the old ball, paddle and grid are among
\* the 17 objects it deleted
C23_Witness ==
    /\ last.op = "tick"
    /\ last.rebuild
    /\ Len(owned.log) >= 17
    /\ DeletedAt(owned, "Ball") # {}
    /\ DeletedAt(owned, "PlayerPlatform") # {}
    /\ DeletedAt(owned, "BoxGrid") # {}
    /\ \E o \in owned.was : owned.objs[o].kind = "AudioSource" /\ owned.objs[o].deleted = 1

\* C24 (SpecLong): at the end of every update tick gameOver is true exactly
\* when ball.y < -1.449, and a tick without rebuild that starts with
\* ball.y < -1.449 ends with the ball no higher, still below the bound and
\* still moving down.
C24_GameOverIffOut ==
    [][/\ last'.op = "tick" => (gameOver' <=> ball'.pos.y < -YBouncePoint(ball'))
       /\ (last'.op = "tick" /\ ~last'.rebuild /\ ball.pos.y < -YBouncePoint(ball)) =>
             /\ ball'.pos.y <= ball.pos.y
             /\ ball'.pos.y < -YBouncePoint(ball')
             /\ ball'.yStep = -1
             /\ ~last'.paddleHit /\ last'.cellHit = -1 /\ ~last'.wallY]_vars

\* C24: a tick that began with the ball below the bound, above the freeze
\* threshold, has moved it
C24_Witness ==
    /\ last.op = "tick"
    /\ ~last.rebuild
    /\ last.wasOver
    /\ ~last.frozen
    /\ gameOver
    /\ ball.pos.y < -YBouncePoint(ball) - FreezeMargin

\* C25 (SpecLive): once the ball is below -1.449 and ticks keep coming, the
\* ball gets below -1.549 unless a tick rebuilds the scene first; and a tick
\* without rebuild that finds the ball below -1.549 changes neither the ball's
\* position nor its steps nor the grid, so that the next tick finds it there.
C25_EventuallyFrozen ==
    /\ OutOfWorld(ball) ~> (Frozen(ball) \/ last.rebuild)
    /\ [][(last'.op = "tick" /\ ~last'.rebuild /\ Frozen(ball)) =>
             /\ last'.frozen
             /\ ball' = ball
             /\ grid' = grid
             /\ Frozen(ball')]_vars

\* C25: a tick has found the ball below -1.549 after the tick before it had
\* found it out of world
C25_Witness ==
    /\ last.op = "tick"
    /\ ~last.rebuild
    /\ last.wasOver
    /\ last.frozen
    /\ Frozen(ball)
    /\ outTicks >= 2

\* C26: copy-assigning a non-empty handle to itself, or to a handle that already
\* references the same object, leaves the object's reference count as it was and
\* does not release the object, also when the count is 1; no reference-count
\* operation is applied to a released object.
C26_SameObjectAssignKeeps ==
    (lastRef.op = "copyAssign" /\ lastRef.obj # 0 /\ lastRef.dropped = lastRef.obj) =>
        /\ refUB = "none"
        /\ heap[lastRef.obj].freed = 0
        /\ heap[lastRef.obj].count = lastRef.before

\* C27: copy construction and copy assignment from an empty handle
\* (default-constructed or moved-from) apply addRef to no null object.
C27_EmptySourceNoAddRef ==
    (lastRef.op \in {"copyCtor", "copyAssign"} /\ lastRef.obj = 0) => refUB # "null"

\* C28 (SpecLong): in every state between ticks, after any ticks and rebuilds,
\* the ball's paddle handle and grid handle refer to the paddle and the grid the
\* Application's handles refer to, all three alive; after a rebuild these are
\* not objects of the scene before it.
C28_BallSeesCurrentScene ==
    LET b == Slot(owned, Loc(AppObj, BallSlot))
        p == Slot(owned, Loc(AppObj, PlayerSlot))
        g == Slot(owned, Loc(AppObj, GridSlot))
    IN  /\ owned.ub = "none"
        /\ {b, p, g} \subseteq Alive(owned)
        /\ owned.objs[b].kind = "Ball"
        /\ owned.objs[p].kind = "PlayerPlatform"
        /\ owned.objs[g].kind = "BoxGrid"
        /\ Slot(owned, Loc(b, BallPlayerSlot)) = p
        /\ Slot(owned, Loc(b, BallGridSlot)) = g
        /\ (last.op = "tick" /\ last.rebuild) => {b, p, g} \cap owned.was = {}

\* C28: a tick has rebuilt the scene: the ball of the new scene holds the new
\* paddle and the new grid, both made after every object of the old scene
C28_Witness ==
    /\ last.op = "tick"
    /\ last.rebuild
    /\ Len(rebuilt.grid.skippedBoxes) = 0
    /\ Cardinality(owned.was) = 18
    /\ \A o \in owned.was :
          /\ o < Slot(owned, Loc(Slot(owned, Loc(AppObj, BallSlot)), BallPlayerSlot))
          /\ o < Slot(owned, Loc(Slot(owned, Loc(AppObj, BallSlot)), BallGridSlot))

\* the objects the grid's four handles refer to
GridMembers(H) == {Slot(H, Loc(GridOf(H), k)) : k \in {VaoSlot, VboSlot, IboSlot, ShaderSlot}}

\* C29 (SpecGrid): after a destroyBox call, from outside or from bounce, the
\* grid's handles refer to one vertex buffer, one index buffer, one vertex array
\* and one shader, each alive, made by this call and held by this handle alone;
\* the four objects they replace were deleted once each, in the order of their
\* replacement and with no handle left; the objects alive are as many as before.
C29_GridObjectsReplaced ==
    (last.op = "destroyBox" \/ (last.op = "tick" /\ last.cellHit # -1)) =>
        LET g == GridOf(owned)
            n == Len(owned.log)
        IN  /\ owned.ub = "none"
            /\ Cardinality(GridMembers(owned)) = 4
            /\ GridMembers(owned) \subseteq Alive(owned) \ owned.was
            /\ \A o \in GridMembers(owned) :
                  owned.objs[o].count = 1 /\ HandlesTo(owned, o, Loc(0, 0)) = 1
            /\ owned.objs[Slot(owned, Loc(g, VboSlot))].kind = "Buffer"
            /\ owned.objs[Slot(owned, Loc(g, IboSlot))].kind = "Buffer"
            /\ owned.objs[Slot(owned, Loc(g, VaoSlot))].kind = "VertexArray"
            /\ owned.objs[Slot(owned, Loc(g, ShaderSlot))].kind = "Shader"
            /\ n = (IF last.rebuild THEN 17 ELSE 0) + 4
            /\ [i \in 1..4 |-> owned.objs[owned.log[n - 4 + i].obj].kind]
                  = RegenerateMakes
            /\ \A i \in 1..n :
                  /\ owned.log[i].handles = 0
                  /\ owned.objs[owned.log[i].obj].deleted = 1
                  /\ \A j \in 1..n : owned.log[j].obj = owned.log[i].obj => j = i
            /\ Cardinality(Alive(owned)) = Cardinality(owned.was)

\* C29: a second destroyBox call has replaced the grid's four objects again
C29_Witness ==
    /\ last.op = "destroyBox"
    /\ Len(grid.skippedBoxes) = 2
    /\ Len(owned.log) = 4
    /\ GridMembers(owned) \cap owned.was = {}
    /\ Cardinality(Alive(owned)) = 18

\* C30 (SpecSlow): through update ticks and rebuilds the destroyed-cell list holds
\* no index twice, every index in it is one of the grid's countX * countY cells,
\* and it is no longer than the number of cells.
C30_SkippedDistinctInRange ==
    LET sk == grid.skippedBoxes
        cells == grid.countX * grid.countY
    IN  /\ \A j, k \in 1..Len(sk) : sk[j] = sk[k] => j = k
        /\ \A k \in 1..Len(sk) : sk[k] \in 0..(cells - 1)
        /\ Len(sk) <= cells

\* C30: a tick has ended with the ball where a cell destroyed earlier was made,
\* and has added nothing to the list
C30_Witness ==
    /\ last.op = "tick"
    /\ ~last.rebuild
    /\ last.cellHit = -1
    /\ Len(grid.skippedBoxes) < MaxSkipped
    /\ \E k \in 1..Len(grid.skippedBoxes) :
          Hit(FreshGrid.vertices[grid.skippedBoxes[k] + 1], ball.pos, ball.size,
              SelfCollisionBias)

=============================================================================
